---- MODULE Spec2Model ----
(***************************************************************************)
(* State machine of the single-page client of modern-video-downloader:     *)
(* the App component (its six pieces of React state, the five action       *)
(* dispatchers, the Cancel handler and the queue poller effect) together    *)
(* with the requests it has in flight.  One action per handler invocation   *)
(* and one per continuation that runs when an awaited response settles.     *)
(***************************************************************************)
EXTENDS Integers, Sequences, FiniteSets, TLC

VARIABLES
  url,          \* useState url
  thumbnailUrl, \* useState thumbnailUrl
  streamUrl,    \* useState streamUrl
  error,        \* useState error (the shared error string)
  queueText,    \* useState queueText, a sequence of characters
  queue,        \* useState queue (the local queue snapshot)
  reqs,         \* dispatcher requests in flight (fetch issued, not settled)
  polls,        \* poller requests in flight
  fetched,      \* number of fetch() calls made so far
  mounted,      \* the view is active (the effect has run, its cleanup has not)
  acts,         \* number of times the poller effect has run
  alive,        \* activations whose `alive` flag is true
  timers,       \* activations whose setInterval timer has not been cleared
  last,         \* history: the step taken last, when it is one of Observed
  errorBy,      \* history: the request whose failure last wrote `error`
  overlap,      \* history: requests in flight that shared the wire with another
  thumbBy,      \* history: the requests that set a thumbnail, newest and last
  queueBy,      \* history: the polls that replaced the snapshot, newest and last
  superseded,   \* history: requests in flight with a later request of their kind
  followers,    \* history: requests in flight launched with an earlier one in flight
  apiBase,      \* the module constant apiBase, a sequence of characters
  joined        \* history: the last call of joinApiUrl, its path and its result

ui == <<url, thumbnailUrl, streamUrl, error, queueText, queue>>
net == <<reqs, polls, fetched>>
poller == <<mounted, acts, alive, timers>>
env == <<apiBase, joined>>
kin == <<superseded, followers>>
vars == <<url, thumbnailUrl, streamUrl, error, queueText, queue, reqs, polls,
          fetched, mounted, acts, alive, timers, last, errorBy, overlap,
          thumbBy, queueBy, superseded,
          followers, apiBase, joined>>

(***************************************************************************)
(* Bounds of the model.                                                    *)
(***************************************************************************)
MaxFetch == 3        \* fetch() calls in one behaviour
MaxActivations == 2  \* runs of the poller effect in one behaviour
MaxLen == 4          \* characters typed into the batch text area
MaxBase == 3         \* characters of VITE_API_URL
MaxPath == 3         \* characters of a path handed to joinApiUrl
MaxInFlight == 2     \* unanswered polls of one activation (the poller alone)

(***************************************************************************)
(* Values the inputs are drawn from.                                       *)
(***************************************************************************)
Urls == {"", "http://v/1"}
Thumbs == {"http://img/1", "http://img/2"}
Streams == {"http://cdn/1"}
Details == {"Invalid URL"}
Statuses == {200, 500}
ThrowMessages == {"", "Failed to fetch"}

\* queueText values: "", "  \n ", "a\n\n b "
QueueTexts ==
  { <<>>,
    <<" ", " ", "\n", " ">>,
    <<"a", "\n", "\n", " ", "b", " ">> }

\* every text of at most MaxLen characters over letters, blanks and newlines
Chars == {"a", "b", " ", "\n"}
Texts == UNION {[1..n -> Chars] : n \in 0..MaxLen}

\* values of VITE_API_URL that are no absolute URL (they have no scheme), so
\* that `new URL(path, apiBase)` throws; <<>> is the variable unset or empty
UrlChars == {"/", "a"}
EnvValues == UNION {[1..n -> UrlChars] : n \in 0..MaxBase}
\* paths beginning with "/"
ApiPaths == {<<"/">> \o q : q \in UNION {[1..n -> UrlChars] : n \in 0..(MaxPath - 1)}}

Item(id, status) == [id |-> id, status |-> status]
Snapshots ==
  { <<>>,
    <<Item("j1", "running")>> }

(***************************************************************************)
(* Strings as character sequences: split("\n"), trim(), filter.            *)
(***************************************************************************)
IsSpace(c) == c \in {" ", "\n", "\t", "\r"}

RECURSIVE TrimStart(_)
TrimStart(s) ==
  IF s = <<>> THEN <<>>
  ELSE IF IsSpace(Head(s)) THEN TrimStart(Tail(s)) ELSE s

RECURSIVE TrimEnd(_)
TrimEnd(s) ==
  IF s = <<>> THEN <<>>
  ELSE IF IsSpace(s[Len(s)]) THEN TrimEnd(SubSeq(s, 1, Len(s) - 1)) ELSE s

Trim(s) == TrimEnd(TrimStart(s))

\* s.split(sep): the pieces of s between occurrences of sep; never empty
RECURSIVE SplitFrom(_, _, _)
SplitFrom(s, sep, cur) ==
  IF s = <<>> THEN <<cur>>
  ELSE IF Head(s) = sep THEN <<cur>> \o SplitFrom(Tail(s), sep, <<>>)
  ELSE SplitFrom(Tail(s), sep, Append(cur, Head(s)))

Split(s, sep) == SplitFrom(s, sep, <<>>)

RECURSIVE MapTrim(_)
MapTrim(ls) ==
  IF ls = <<>> THEN <<>> ELSE <<Trim(Head(ls))>> \o MapTrim(Tail(ls))

RECURSIVE FilterNonEmpty(_)
FilterNonEmpty(ls) ==
  IF ls = <<>> THEN <<>>
  ELSE IF Len(Head(ls)) > 0 THEN <<Head(ls)>> \o FilterNonEmpty(Tail(ls))
  ELSE FilterNonEmpty(Tail(ls))

\* fault: the lines are not trimmed
parsedQueueLines_NoTrim(text) == FilterNonEmpty(Split(text, "\n"))

parsedQueueLines(text) == FilterNonEmpty(MapTrim(Split(text, "\n")))

(***************************************************************************)
(* joinApiUrl, for a base that `new URL` rejects: the catch branch.        *)
(***************************************************************************)
\* (import.meta.env.VITE_API_URL as string) || "/"
ApiBase(v) == IF v = <<>> THEN <<"/">> ELSE v

\* path.replace(/^\//, "")
StripLeadingSlash(path) ==
  IF path # <<>> /\ Head(path) = "/" THEN Tail(path) ELSE path

\* s.endsWith("/")
EndsWithSlash(s) == s # <<>> /\ s[Len(s)] = "/"

joinApiUrl(path) ==
  (IF EndsWithSlash(apiBase) THEN apiBase ELSE apiBase \o <<"/">>)
    \o StripLeadingSlash(path)

NoCall == [path |-> <<>>, url |-> <<>>]

(***************************************************************************)
(* HTTP responses.  A fetch either rejects (a transport failure, with the  *)
(* exception's message) or resolves with a status and a body; the body is  *)
(* text that is not JSON, the JSON value null, or a JSON object.           *)
(***************************************************************************)
Throw(m) == [type |-> "throw", message |-> m]
Http(s, b) == [type |-> "http", status |-> s, body |-> b]
NotJson == [json |-> "invalid"]
JsonNull == [json |-> "null"]
Obj(o) == [json |-> "object", obj |-> o]
EmptyObj == Obj(<<>>)

\* res.ok
Ok(resp) == resp.type = "http" /\ resp.status >= 200 /\ resp.status <= 299

OkStatuses == {s \in Statuses : s >= 200 /\ s <= 299}
BadStatuses == Statuses \ OkStatuses

\* j?.k for a parsed body: the field's value, or "" standing for undefined
\* (both are falsy and `v || fallback` treats them alike)
Field(b, k) ==
  IF b.json = "object" /\ k \in DOMAIN b.obj THEN b.obj[k] ELSE ""

ErrorBodies ==
  {NotJson, JsonNull, Obj([detail |-> ""])} \cup {Obj([detail |-> d]) : d \in Details}

ThumbnailBodies ==
  {NotJson, JsonNull, EmptyObj, Obj([thumbnail |-> ""])}
    \cup {Obj([thumbnail |-> t]) : t \in Thumbs}

PreviewBodies ==
  {NotJson, JsonNull, EmptyObj, Obj([stream_url |-> ""])}
    \cup {Obj([stream_url |-> s]) : s \in Streams}

EnqueueBodies == {NotJson, Obj([queued |-> 1])}

QueueBodies ==
  {NotJson, JsonNull, EmptyObj} \cup {Obj([queue |-> q]) : q \in Snapshots}

Failures ==
  {Throw(m) : m \in ThrowMessages}
    \cup {Http(s, b) : s \in BadStatuses, b \in ErrorBodies}

Responses(kind) ==
  Failures \cup
    {Http(s, b) : s \in OkStatuses,
                  b \in CASE kind = "thumbnail" -> ThumbnailBodies
                          [] kind = "preview" -> PreviewBodies
                          [] OTHER -> EnqueueBodies}

\* a failed status may still carry a body with a queue in it
PollResponses ==
  {Throw("Failed to fetch")}
    \cup {Http(s, b) : s \in OkStatuses, b \in QueueBodies}
    \cup {Http(s, b) : s \in BadStatuses,
                        b \in {NotJson} \cup {Obj([queue |-> q]) : q \in Snapshots \ {<<>>}}}

(***************************************************************************)
(* What a dispatcher's try block throws for a response, as the code        *)
(* computes it: [thrown, message].                                         *)
(***************************************************************************)
\* message of the SyntaxError res.json() rejects with on a body that is not JSON
JsonSyntaxMessage == "Unexpected token < in JSON at position 0"
\* message of the TypeError raised by reading a property of null
NullReadMessage == "Cannot read properties of null"

\* fault: the error body's detail is never read
HttpErrorMessage_NoDetail(resp) == "Error " \o ToString(resp.status)

\* j?.detail || `Error ${res.status}`
HttpErrorMessage(resp) ==
  LET d == Field(resp.body, "detail")
  IN IF d # "" THEN d ELSE "Error " \o ToString(resp.status)

ResultField(kind) == IF kind = "thumbnail" THEN "thumbnail" ELSE "stream_url"

MissingMessage(kind) ==
  IF kind = "thumbnail" THEN "No thumbnail returned" ELSE "No stream URL returned"

Fallback(kind) ==
  CASE kind = "thumbnail" -> "Failed to fetch thumbnail"
    [] kind = "preview" -> "Failed to fetch preview"
    [] kind = "download" -> "Failed to enqueue download"
    [] OTHER -> "Failed to add to queue"

NoThrow == [thrown |-> FALSE, message |-> ""]
Thrown(m) == [thrown |-> TRUE, message |-> m]

\* fault: a success status is taken as proof of a usable result
Caught_NoMissingCheck(kind, resp) ==
  IF resp.type = "throw" THEN Thrown(resp.message)
  ELSE IF ~Ok(resp) THEN Thrown(HttpErrorMessage(resp))
  ELSE IF kind \notin {"thumbnail", "preview"} THEN NoThrow
  ELSE IF resp.body.json = "invalid" THEN Thrown(JsonSyntaxMessage)
  ELSE IF resp.body.json = "null" THEN Thrown(NullReadMessage)
  ELSE NoThrow

Caught(kind, resp) ==
  IF resp.type = "throw" THEN Thrown(resp.message)
  ELSE IF ~Ok(resp) THEN Thrown(HttpErrorMessage(resp))
  ELSE IF kind \notin {"thumbnail", "preview"} THEN NoThrow
  ELSE IF resp.body.json = "invalid" THEN Thrown(JsonSyntaxMessage)
  ELSE IF resp.body.json = "null" THEN Thrown(NullReadMessage)
  ELSE IF Field(resp.body, ResultField(kind)) = "" THEN Thrown(MissingMessage(kind))
  ELSE NoThrow

\* fault: a response is dropped once a later-issued request has set the thumbnail
WritesResult_NewestOnly(r, resp) ==
  /\ r.kind \in {"thumbnail", "preview"}
  /\ Ok(resp)
  /\ resp.body.json = "object"
  /\ thumbBy.newest < r.id

\* fault: the response handled right after a Cancel is dropped
WritesResult_UnlessCancelled(r, resp) ==
  /\ r.kind \in {"thumbnail", "preview"}
  /\ Ok(resp)
  /\ resp.body.json = "object"
  /\ last.op # "handleCancel"

\* the setter call between `const data = await res.json()` and the throw:
\* reached only when the body parsed to an object
WritesResult(r, resp) ==
  /\ r.kind \in {"thumbnail", "preview"}
  /\ Ok(resp)
  /\ resp.body.json = "object"

\* fault: the exception's message is displayed as it is
CatchMessage_NoFallback(kind, c) == c.message

\* catch (e) { setError(e?.message || fallback) }
CatchMessage(kind, c) == IF c.message # "" THEN c.message ELSE Fallback(kind)

\* the path a dispatcher's continuation takes through the handler
Branch(kind, resp) ==
  IF resp.type = "throw" THEN "rejected"
  ELSE IF ~Ok(resp) THEN "status"
  ELSE IF kind \notin {"thumbnail", "preview"} THEN "done"
  ELSE IF resp.body.json # "object" THEN "unparsed"
  ELSE IF Field(resp.body, ResultField(kind)) = "" THEN "missing"
  ELSE "done"

(***************************************************************************)
(* Initial state: the component has rendered, its effect has not run yet.  *)
(***************************************************************************)
\* the steps the properties ask about; any other step leaves no trace in `last`
Observed ==
  { <<"tick", "torn down">>, <<"tick", "discarded">>,
    <<"handleStartQueue", "sent">>, <<"handleAddToQueue", "empty">>,
    <<"handleCancel", "">>, <<"thumbnail", "after cancel">> }

Step(op, branch) ==
  IF <<op, branch>> \in Observed
  THEN [op |-> op, branch |-> branch]
  ELSE [op |-> "", branch |-> ""]

\* of the requests whose result was displayed: the one issued last and the one
\* displayed last (0: none yet)
NoneBy == [newest |-> 0, shown |-> 0]
By(h, id) == [newest |-> IF id > h.newest THEN id ELSE h.newest, shown |-> id]

InitApp ==
  /\ url = ""
  /\ thumbnailUrl = ""
  /\ streamUrl = ""
  /\ error = ""
  /\ queueText = <<>>
  /\ queue = <<>>
  /\ reqs = {}
  /\ polls = {}
  /\ fetched = 0
  /\ mounted = FALSE
  /\ acts = 0
  /\ alive = {}
  /\ timers = {}
  /\ last = Step("init", "")
  /\ errorBy = [id |-> 0, kind |-> ""]
  /\ overlap = {}
  /\ thumbBy = NoneBy
  /\ queueBy = NoneBy
  /\ superseded = {}
  /\ followers = {}
  /\ joined = NoCall

\* VITE_API_URL is not set
Init ==
  /\ InitApp
  /\ apiBase = ApiBase(<<>>)

(***************************************************************************)
(* View layer: edits of the two inputs.                                    *)
(***************************************************************************)
onUrlChange(u) ==
  /\ mounted
  /\ url' = u
  /\ last' = Step("edit", "")
  /\ UNCHANGED <<env, thumbnailUrl, streamUrl, error, queueText, queue, net, poller,
                 errorBy, overlap, kin, thumbBy, queueBy>>

onQueueTextChange(t) ==
  /\ mounted
  /\ queueText' = t
  /\ last' = Step("edit", "")
  /\ UNCHANGED <<env, url, thumbnailUrl, streamUrl, error, queue, net, poller,
                 errorBy, overlap, kin, thumbBy, queueBy>>

handleClearQueueText ==
  /\ mounted
  /\ queueText' = <<>>
  /\ last' = Step("edit", "")
  /\ UNCHANGED <<env, url, thumbnailUrl, streamUrl, error, queue, net, poller,
                 errorBy, overlap, kin, thumbBy, queueBy>>

(***************************************************************************)
(* Dispatchers: the synchronous part of each handler, up to its fetch.     *)
(***************************************************************************)
Path(kind) ==
  CASE kind = "thumbnail" -> "/api/thumbnail"
    [] kind = "preview" -> "/api/preview"
    [] kind = "download" -> "/api/download"
    [] OTHER -> "/api/queue/add"

\* A request in flight.  `urls` is the array the batch endpoint is sent; the
\* three single-URL endpoints are sent {url}, which nothing reads back and the
\* model leaves out (<<>>).
Request(id, kind, urls) ==
  [id |-> id, kind |-> kind, method |-> "POST", path |-> Path(kind), urls |-> urls]

\* fetch(joinApiUrl(path), {method: "POST", body}) : one more request in flight
Fetch(kind, urls) ==
  /\ fetched < MaxFetch
  /\ fetched' = fetched + 1
  /\ reqs' = reqs \cup {Request(fetched + 1, kind, urls)}
  /\ overlap' = IF reqs = {} THEN overlap
                ELSE overlap \cup {r.id : r \in reqs} \cup {fetched + 1}
  /\ superseded' = superseded \cup {r.id : r \in {q \in reqs : q.kind = kind}}
  /\ followers' = IF \E q \in reqs : q.kind = kind
                  THEN followers \cup {fetched + 1} ELSE followers
  /\ UNCHANGED polls

\* fault: the stream is left in place
resetPreview_KeepsStream ==
  /\ thumbnailUrl' = ""
  /\ streamUrl' = streamUrl
  /\ error' = ""

resetPreview ==
  /\ thumbnailUrl' = ""
  /\ streamUrl' = ""
  /\ error' = ""

\* fault: the thumbnail dispatcher resets the whole preview before its request
handleThumbnail_ResetsPreview ==
  /\ mounted
  /\ resetPreview
  /\ Fetch("thumbnail", <<>>)
  /\ last' = Step("handleThumbnail", "")
  /\ UNCHANGED <<env, url, queueText, queue, poller, errorBy, thumbBy, queueBy>>

\* fault: the thumbnail is not cleared before the request
handleThumbnail_KeepsThumbnail ==
  /\ mounted
  /\ error' = ""
  /\ Fetch("thumbnail", <<>>)
  /\ last' = Step("handleThumbnail", "")
  /\ UNCHANGED <<env, url, thumbnailUrl, streamUrl, queueText, queue, poller, errorBy,
                 thumbBy, queueBy>>

handleThumbnail ==
  /\ mounted
  /\ error' = ""
  /\ thumbnailUrl' = ""
  /\ Fetch("thumbnail", <<>>)
  /\ last' = Step("handleThumbnail", "")
  /\ UNCHANGED <<env, url, streamUrl, queueText, queue, poller, errorBy, thumbBy, queueBy>>

\* fault: the error slot is not cleared before the request
handlePreview_KeepsError ==
  /\ mounted
  /\ streamUrl' = ""
  /\ Fetch("preview", <<>>)
  /\ last' = Step("handlePreview", "")
  /\ UNCHANGED <<env, url, thumbnailUrl, error, queueText, queue, poller, errorBy,
                 thumbBy, queueBy>>

handlePreview ==
  /\ mounted
  /\ error' = ""
  /\ streamUrl' = ""
  /\ Fetch("preview", <<>>)
  /\ last' = Step("handlePreview", "")
  /\ UNCHANGED <<env, url, thumbnailUrl, queueText, queue, poller, errorBy, thumbBy,
                 queueBy>>

\* fault: the error slot is not cleared before the request
handleDownload_KeepsError ==
  /\ mounted
  /\ Fetch("download", <<>>)
  /\ last' = Step("handleDownload", "")
  /\ UNCHANGED <<env, ui, poller, errorBy, thumbBy, queueBy>>

handleDownload ==
  /\ mounted
  /\ error' = ""
  /\ Fetch("download", <<>>)
  /\ last' = Step("handleDownload", "")
  /\ UNCHANGED <<env, url, thumbnailUrl, streamUrl, queueText, queue, poller, errorBy,
                 thumbBy, queueBy>>

handleCancel ==
  /\ mounted
  /\ url' = ""
  /\ resetPreview
  /\ last' = Step("handleCancel", "")
  /\ UNCHANGED <<env, queueText, queue, net, poller, errorBy, overlap, kin, thumbBy, queueBy>>

\* fault: the early return on an empty line list is missing
AddToQueue_NoEmptyCheck(op) ==
  /\ error' = ""
  /\ Fetch("add", parsedQueueLines(queueText))
  /\ last' = Step(op, "sent")
  /\ UNCHANGED <<env, url, thumbnailUrl, streamUrl, queueText, queue, poller,
                 errorBy, thumbBy, queueBy>>

\* the body of handleAddToQueue; op names the handler the user invoked
AddToQueue(op) ==
  IF Len(parsedQueueLines(queueText)) = 0
  THEN /\ last' = Step(op, "empty")
       /\ UNCHANGED <<env, ui, net, poller, errorBy, overlap, kin, thumbBy, queueBy>>
  ELSE /\ error' = ""
       /\ Fetch("add", parsedQueueLines(queueText))
       /\ last' = Step(op, "sent")
       /\ UNCHANGED <<env, url, thumbnailUrl, streamUrl, queueText, queue, poller,
                      errorBy, thumbBy, queueBy>>

handleAddToQueue ==
  /\ mounted
  /\ AddToQueue("handleAddToQueue")

\* await handleAddToQueue()
handleStartQueue ==
  /\ mounted
  /\ AddToQueue("handleStartQueue")

(***************************************************************************)
(* Dispatchers: the continuation that runs when the response settles.      *)
(***************************************************************************)
Settle(r, resp) ==
  LET c == Caught(r.kind, resp)
      v == Field(resp.body, ResultField(r.kind))
  IN /\ reqs' = reqs \ {r}
     /\ thumbnailUrl' =
          IF r.kind = "thumbnail" /\ WritesResult(r, resp) THEN v ELSE thumbnailUrl
     /\ streamUrl' =
          IF r.kind = "preview" /\ WritesResult(r, resp) THEN v ELSE streamUrl
     /\ error' = IF c.thrown THEN CatchMessage(r.kind, c) ELSE error
     /\ errorBy' = IF c.thrown THEN [id |-> r.id, kind |-> r.kind] ELSE errorBy
     /\ overlap' = overlap \ {r.id}
     /\ superseded' = superseded \ {r.id}
     /\ followers' = followers \ {r.id}
     /\ thumbBy' =
          IF r.kind = "thumbnail" /\ WritesResult(r, resp) /\ v # ""
          THEN By(thumbBy, r.id) ELSE thumbBy
     /\ last' = Step(r.kind, IF last.op = "handleCancel" THEN "after cancel"
                              ELSE Branch(r.kind, resp))
     /\ UNCHANGED <<env, url, queueText, queue, polls, fetched, poller, queueBy>>

thumbnailSettled ==
  \E r \in reqs : r.kind = "thumbnail" /\ \E resp \in Responses(r.kind) : Settle(r, resp)

previewSettled ==
  \E r \in reqs : r.kind = "preview" /\ \E resp \in Responses(r.kind) : Settle(r, resp)

downloadSettled ==
  \E r \in reqs : r.kind = "download" /\ \E resp \in Responses(r.kind) : Settle(r, resp)

addSettled ==
  \E r \in reqs : r.kind = "add" /\ \E resp \in Responses(r.kind) : Settle(r, resp)

(***************************************************************************)
(* Queue poller: the effect, its interval timer, its cleanup.              *)
(***************************************************************************)
Poll(id, act) == [id |-> id, act |-> act, method |-> "GET", path |-> "/api/queue"]

\* the synchronous part of tick(): fetch(joinApiUrl("/api/queue"))
tick(act) ==
  /\ fetched < MaxFetch
  /\ fetched' = fetched + 1
  /\ polls' = polls \cup {Poll(fetched + 1, act)}
  /\ UNCHANGED reqs

\* useEffect body: alive = true; tick(); id = setInterval(tick, 2000)
effectMount ==
  /\ ~mounted
  /\ acts < MaxActivations
  /\ mounted' = TRUE
  /\ acts' = acts + 1
  /\ alive' = alive \cup {acts + 1}
  /\ tick(acts + 1)
  /\ timers' = timers \cup {acts + 1}
  /\ last' = Step("effectMount", "")
  /\ UNCHANGED <<env, ui, errorBy, overlap, kin, thumbBy, queueBy>>

\* the interval fires
intervalTick ==
  \E a \in timers :
    /\ tick(a)
    /\ last' = Step("intervalTick", "")
    /\ UNCHANGED <<env, ui, poller, errorBy, overlap, kin, thumbBy, queueBy>>

\* fault: the cleanup does not clear the interval
effectCleanup_LeaksTimer ==
  /\ mounted
  /\ mounted' = FALSE
  /\ alive' = alive \ {acts}
  /\ last' = Step("effectCleanup", "")
  /\ UNCHANGED <<env, ui, net, acts, timers, errorBy, overlap, kin, thumbBy, queueBy>>

\* the effect's cleanup: alive = false; clearInterval(id)
effectCleanup ==
  /\ mounted
  /\ mounted' = FALSE
  /\ alive' = alive \ {acts}
  /\ timers' = timers \ {acts}
  /\ last' = Step("effectCleanup", "")
  /\ UNCHANGED <<env, ui, net, acts, errorBy, overlap, kin, thumbBy, queueBy>>

\* fault: the status is not checked before the body is read
HasQueue_IgnoresStatus(resp) ==
  /\ resp.type = "http"
  /\ resp.body.json = "object"
  /\ "queue" \in DOMAIN resp.body.obj

\* if (!res.ok) return; data = await res.json(); data?.queue is truthy
\* (an array, even an empty one, is)
HasQueue(resp) ==
  /\ Ok(resp)
  /\ resp.body.json = "object"
  /\ "queue" \in DOMAIN resp.body.obj

\* fault: a response is dropped once the response of a later tick was applied
Applies_NewestOnly(p, resp) ==
  /\ p.act \in alive
  /\ HasQueue(resp)
  /\ queueBy.newest < p.id

\* fault: the liveness flag is not consulted
Applies_NoAliveGate(p, resp) == HasQueue(resp)

\* if (alive && data?.queue)
Applies(p, resp) == p.act \in alive /\ HasQueue(resp)

\* the path the continuation of tick() takes
PollBranch(p, resp) ==
  IF Applies(p, resp) THEN "applied"
  ELSE IF HasQueue(resp) THEN "torn down"
  ELSE "discarded"

\* the continuation of tick() once the response settles
TickSettle(p, resp) ==
  /\ polls' = polls \ {p}
  /\ queue' = IF Applies(p, resp) THEN resp.body.obj.queue ELSE queue
  /\ queueBy' = IF Applies(p, resp) THEN By(queueBy, p.id) ELSE queueBy
  /\ last' = Step("tick", PollBranch(p, resp))
  /\ UNCHANGED <<env, url, thumbnailUrl, streamUrl, error, queueText, reqs, fetched,
                 poller, errorBy, overlap, kin, thumbBy>>

tickSettled == \E p \in polls : \E resp \in PollResponses : TickSettle(p, resp)

Next ==
  \/ \E u \in Urls : onUrlChange(u)
  \/ \E t \in QueueTexts : onQueueTextChange(t)
  \/ handleClearQueueText
  \/ handleThumbnail
  \/ handlePreview
  \/ handleDownload
  \/ handleCancel
  \/ handleAddToQueue
  \/ handleStartQueue
  \/ thumbnailSettled
  \/ previewSettled
  \/ downloadSettled
  \/ addSettled
  \/ effectMount
  \/ intervalTick
  \/ effectCleanup
  \/ tickSettled

Spec == Init /\ [][Next]_vars

(***************************************************************************)
(* The poller alone, running for ever: the same effect, interval, cleanup  *)
(* and continuation, with no count of the fetches made and no log kept; an *)
(* unanswered poll is told from the others of its activation by a number   *)
(* that is free again once it is answered.                                 *)
(***************************************************************************)
FreeSlots(act) == {i \in 1..MaxInFlight : Poll(i, act) \notin polls}

\* the synchronous part of tick(): fetch(joinApiUrl("/api/queue"))
pollerFetch(act) ==
  /\ FreeSlots(act) # {}
  /\ polls' = polls \cup
       {Poll(CHOOSE i \in FreeSlots(act) : \A j \in FreeSlots(act) : i <= j, act)}

\* useEffect body: alive = true; tick(); id = setInterval(tick, 2000)
pollerMount ==
  /\ ~mounted
  /\ acts < MaxActivations
  /\ mounted' = TRUE
  /\ acts' = acts + 1
  /\ alive' = alive \cup {acts + 1}
  /\ pollerFetch(acts + 1)
  /\ timers' = timers \cup {acts + 1}
  /\ last' = Step("effectMount", "")
  /\ UNCHANGED <<env, ui, reqs, fetched, errorBy, overlap, kin, thumbBy, queueBy>>

\* the interval fires
pollerTick ==
  \E a \in timers :
    /\ pollerFetch(a)
    /\ last' = Step("intervalTick", "")
    /\ UNCHANGED <<env, ui, reqs, fetched, poller, errorBy, overlap, kin,
                   thumbBy, queueBy>>

\* fault: a response that is not applied stops the interval
pollerSettle_StopsOnFailure(p, resp) ==
  /\ polls' = polls \ {p}
  /\ queue' = IF Applies(p, resp) THEN resp.body.obj.queue ELSE queue
  /\ timers' = IF Applies(p, resp) THEN timers ELSE timers \ {p.act}
  /\ last' = Step("tick", PollBranch(p, resp))
  /\ UNCHANGED <<env, url, thumbnailUrl, streamUrl, error, queueText, reqs,
                 fetched, mounted, acts, alive, errorBy, overlap, kin, thumbBy,
                 queueBy>>

\* the continuation of tick() once the response settles
pollerSettle(p, resp) ==
  /\ polls' = polls \ {p}
  /\ queue' = IF Applies(p, resp) THEN resp.body.obj.queue ELSE queue
  /\ last' = Step("tick", PollBranch(p, resp))
  /\ UNCHANGED <<env, url, thumbnailUrl, streamUrl, error, queueText, reqs,
                 fetched, poller, errorBy, overlap, kin, thumbBy, queueBy>>

pollerSettled == \E p \in polls : \E resp \in PollResponses : pollerSettle(p, resp)

PollerNext ==
  \/ pollerMount
  \/ pollerTick
  \/ effectCleanup
  \/ pollerSettled

\* the backend answers a poll of the live activation with a well-formed body
GoodAnswer ==
  \E p \in polls : \E resp \in PollResponses :
    /\ p.act \in alive
    /\ Ok(resp)
    /\ resp.body.json = "object"
    /\ "queue" \in DOMAIN resp.body.obj
    /\ pollerSettle(p, resp)

\* The interval timer fires as long as it exists; a backend that can answer
\* well-formed again and again does so again and again.  No single poll need
\* ever be answered, and any answer may be a failure.
PollerSpec ==
  /\ Init
  /\ [][PollerNext]_vars
  /\ WF_vars(pollerTick)
  /\ SF_vars(GoodAnswer)

(***************************************************************************)
(* The API gateway client alone: the bundle is built with any base that is *)
(* no absolute URL, and joinApiUrl is called with any path.                *)
(***************************************************************************)
JoinInit ==
  /\ InitApp
  /\ apiBase \in {ApiBase(v) : v \in EnvValues}

\* a call joinApiUrl(path), by a fetch or by a rendered link
Join(path) ==
  /\ joined' = [path |-> path, url |-> joinApiUrl(path)]
  /\ UNCHANGED <<ui, net, poller, last, errorBy, overlap, kin, thumbBy, queueBy,
                 apiBase>>

JoinNext == \E path \in ApiPaths : Join(path)

JoinSpec == JoinInit /\ [][JoinNext]_vars

(***************************************************************************)
(* The batch text area alone: the view is activated and any text is typed, *)
(* the line list being recomputed from queueText on every render.          *)
(***************************************************************************)
ParseNext ==
  \/ effectMount
  \/ \E t \in Texts : onQueueTextChange(t)
  \/ handleClearQueueText

ParseSpec == Init /\ [][ParseNext]_vars

(***************************************************************************)
(* Properties.                                                             *)
(***************************************************************************)
SuccessStatus(resp) == resp.type = "http" /\ resp.status \in 200..299
FailureStatus(resp) == resp.type = "http" /\ resp.status \notin 200..299
IsObject(resp) == resp.type = "http" /\ resp.body.json = "object"
Has(resp, k) == IsObject(resp) /\ k \in DOMAIN resp.body.obj

\* C1: once the activation that issued a poll has been torn down, the
\* continuation of that poll, whatever the response, replaces no snapshot and
\* changes no other state of the view, the network or the poller.
C1_TornDownPollInert ==
  [][\A p \in polls :
       (p \notin polls' /\ p.act \notin alive)
         => UNCHANGED <<ui, reqs, fetched, poller>>]_vars

\* a response carrying a queue settled after the cleanup and was dropped
C1_Witness ==
  /\ ~mounted
  /\ last = Step("tick", "torn down")

\* a poll response that is not a success carrying a parsed `queue`
PollFailure(resp) ==
  \/ resp.type = "throw"
  \/ FailureStatus(resp)
  \/ ~Has(resp, "queue")

\* C2: a failed poll response (failure status, body that is not JSON, rejected
\* fetch, parsed body without `queue`) leaves the snapshot and the error
\* string, and all other view state, as they were; a well-formed response to
\* a live poll replaces the snapshot by the response's queue, whole, and
\* leaves the error string alone.
C2_PollFailureKeepsSnapshot ==
  [][\A p \in polls : \A resp \in PollResponses :
       TickSettle(p, resp) =>
         IF PollFailure(resp)
         THEN UNCHANGED ui
         ELSE /\ p.act \in alive => queue' = resp.body.obj.queue
              /\ UNCHANGED <<url, thumbnailUrl, streamUrl, error, queueText>>]_vars

\* a failed response has just been discarded while an applied snapshot is shown
\* and a later poll is still to be answered
C2_Witness ==
  /\ mounted
  /\ last = Step("tick", "discarded")
  /\ queueBy.shown # 0
  /\ queue # <<>>
  /\ polls # {}

\* the message a failure status is to produce
StatusMessage(resp) ==
  IF Has(resp, "detail") /\ resp.body.obj.detail # ""
  THEN resp.body.obj.detail
  ELSE "Error " \o ToString(resp.status)

\* C3: when a dispatcher that shared the wire with no other dispatcher gets a
\* failure status, the error string becomes the body's non-empty `detail`, or
\* "Error <status>" when there is none, nothing else of the view changes, and
\* the result field of a failed Preview or Thumbnail is empty.
C3_FailureStatusSetsError ==
  [][\A r \in reqs : \A resp \in Responses(r.kind) :
       (r.id \notin overlap /\ FailureStatus(resp) /\ Settle(r, resp)) =>
         /\ error' = StatusMessage(resp)
         /\ UNCHANGED <<url, thumbnailUrl, streamUrl, queueText, queue>>
         /\ r.kind = "preview" => streamUrl' = ""
         /\ r.kind = "thumbnail" => thumbnailUrl' = ""]_vars

\* the only dispatcher launched so far was a Preview, answered by a failure
\* status with a detail
C3_Witness ==
  /\ errorBy.kind = "preview"
  /\ fetched = 2
  /\ reqs = {}
  /\ error = "Invalid URL"
  /\ streamUrl = ""

QueueButtonEffect ==
  IF parsedQueueLines(queueText) = <<>>
  THEN UNCHANGED <<ui, reqs, polls, fetched, poller>>
  ELSE /\ fetched' = fetched + 1
       /\ polls' = polls
       /\ reqs' = reqs \cup
            {[id |-> fetched + 1, kind |-> "add", method |-> "POST",
              path |-> "/api/queue/add", urls |-> parsedQueueLines(queueText)]}
       /\ error' = ""
       /\ UNCHANGED <<url, thumbnailUrl, streamUrl, queueText, queue, poller>>

\* C5: Add to Queue and Start Queue do the same thing: nothing at all (no
\* request) when the parsed line list is empty, and otherwise exactly one POST
\* to /api/queue/add carrying the parsed lines.
C5_QueueButtons ==
  [][(handleAddToQueue \/ handleStartQueue) => QueueButtonEffect]_vars

\* Start Queue has just sent the two parsed lines
C5_Witness ==
  /\ last = Step("handleStartQueue", "sent")
  /\ \E r \in reqs :
       /\ r.id = fetched
       /\ r.path = "/api/queue/add"
       /\ r.urls = << <<"a">>, <<"b">> >>

\* C6 as stated: every user-triggered operation, from every state, leaves the
\* error string empty right after it is invoked.
C6_EveryOperationClears ==
  [][(\/ handleThumbnail
      \/ handlePreview
      \/ handleDownload
      \/ handleAddToQueue
      \/ handleStartQueue
      \/ handleCancel) => error' = ""]_vars

\* C6, amended: Thumbnail, Preview, Download and Cancel always leave the error
\* string empty, and so do Add to Queue and Start Queue when the parsed line
\* list is not empty; with an empty line list the two return before the slot
\* is cleared and the error string stays what it was.
C6_StartedOperationClears ==
  [][/\ (handleThumbnail \/ handlePreview \/ handleDownload \/ handleCancel)
          => error' = ""
     /\ (handleAddToQueue \/ handleStartQueue)
          => IF parsedQueueLines(queueText) = <<>>
             THEN error' = error
             ELSE error' = ""]_vars

\* Add to Queue returned early and an earlier failure is still displayed
C6_Witness ==
  /\ last = Step("handleAddToQueue", "empty")
  /\ error # ""

\* the dispatcher's try block ran to its end
Succeeds(r, resp) ==
  /\ SuccessStatus(resp)
  /\ r.kind \in {"thumbnail", "preview"} =>
       LET k == IF r.kind = "thumbnail" THEN "thumbnail" ELSE "stream_url"
       IN Has(resp, k) /\ resp.body.obj[k] # ""

\* C7 as stated: while a request B is in flight the error string never holds
\* the message of a failure of a request of another dispatcher launched
\* before B, under any interleaving, and it is empty once B has completed
\* successfully.
C7_NoEarlierFailureShown ==
  [][/\ \A b \in reqs' :
          error' = "" \/ errorBy'.id > b.id \/ errorBy'.kind = b.kind
     /\ \A b \in reqs : \A resp \in Responses(b.kind) :
          (Settle(b, resp) /\ Succeeds(b, resp)) => error' = ""]_vars

\* C7, amended: the guarantee holds for a request B that shares the wire with
\* no other dispatcher (every earlier response was handled before B was
\* launched and none is launched before B completes): the error string is
\* empty from B's launch to its completion and after B completes
\* successfully.  The response of a request still in flight when B is
\* launched is handled during B's lifecycle, and the message of its failure
\* is then displayed and survives B's success.
C7_SoloRequestSeesNoFailure ==
  [][/\ \A b \in reqs' : b.id \notin overlap' => error' = ""
     /\ \A b \in reqs : \A resp \in Responses(b.kind) :
          (b.id \notin overlap /\ Succeeds(b, resp) /\ Settle(b, resp))
            => error' = ""]_vars

\* B is in flight alone, launched after the failure of an earlier request
C7_Witness ==
  \E b \in reqs :
    /\ b.id \notin overlap
    /\ errorBy.id # 0
    /\ errorBy.id < b.id
    /\ errorBy.kind # b.kind
    /\ error = ""

\* C8: the response of a Thumbnail request that carries a thumbnail is always
\* applied, whatever requests were issued after it and whatever responses
\* were applied before it: thumbnailUrl is the thumbnail of the response
\* handled last, also when that is the first-issued request.
C8_LastArrivalWins ==
  [][\A r \in reqs : \A resp \in Responses(r.kind) :
       (/\ r.kind = "thumbnail"
        /\ SuccessStatus(resp)
        /\ Has(resp, "thumbnail")
        /\ resp.body.obj.thumbnail # ""
        /\ Settle(r, resp))
         => thumbnailUrl' = resp.body.obj.thumbnail]_vars

\* the thumbnail shown is that of the first-issued request, applied after the
\* one of the second-issued request
C8_Witness ==
  /\ thumbBy.shown # 0
  /\ thumbBy.shown < thumbBy.newest
  /\ thumbnailUrl # ""

\* C9: Cancel issues no request and removes none from flight, empties url,
\* thumbnailUrl and streamUrl, and leaves queueText and the snapshot alone.
C9_CancelIsLocal ==
  [][handleCancel =>
       /\ UNCHANGED <<reqs, polls, fetched>>
       /\ url' = ""
       /\ thumbnailUrl' = ""
       /\ streamUrl' = ""
       /\ UNCHANGED <<queueText, queue>>]_vars

\* Cancel has run with a request in flight, a batch typed and a snapshot shown
C9_Witness ==
  /\ last = Step("handleCancel", "")
  /\ reqs # {}
  /\ queueText # <<>>
  /\ queue # <<>>
  /\ url = ""
  /\ thumbnailUrl = ""
  /\ streamUrl = ""

\* what a dispatcher of the given kind may not touch
Foreign(kind) ==
  /\ UNCHANGED <<url, queueText, queue>>
  /\ kind # "thumbnail" => thumbnailUrl' = thumbnailUrl
  /\ kind # "preview" => streamUrl' = streamUrl

\* C10: from its invocation to the end of its continuation a dispatcher
\* writes its own result field and the error string only: never url,
\* queueText or the snapshot, Thumbnail never streamUrl, Preview never
\* thumbnailUrl, Download and Add to Queue neither; and the snapshot changes
\* in no step but the continuation of a poll.
C10_OwnSliceOnly ==
  [][/\ handleThumbnail => Foreign("thumbnail")
     /\ handlePreview => Foreign("preview")
     /\ handleDownload => Foreign("download")
     /\ (handleAddToQueue \/ handleStartQueue) => Foreign("add")
     /\ \A r \in reqs : \A resp \in Responses(r.kind) :
          Settle(r, resp) => Foreign(r.kind)
     /\ queue' # queue => \E p \in polls : p \notin polls']_vars

\* a thumbnail has just been applied next to a stream and a snapshot
C10_Witness ==
  /\ thumbBy.shown # 0
  /\ thumbnailUrl # ""
  /\ streamUrl # ""
  /\ queue # <<>>

\* C11: over any sequence of activations and teardowns the poller is started
\* once per activation and stopped once per teardown: an activation adds one
\* timer, its own, and a teardown leaves none; at most one timer exists, none
\* while the view is inactive; a poll is issued only by the live activation;
\* and the response to a poll of an earlier activation never replaces the
\* snapshot.
C11_OnePollerPerActivation ==
  [][/\ effectMount => (timers = {} /\ timers' = {acts'} /\ alive' = {acts'})
     /\ effectCleanup => (timers = {acts} /\ timers' = {} /\ alive' = {})
     /\ Cardinality(timers') <= 1
     /\ ~mounted' => timers' = {}
     /\ \A p \in polls' \ polls : mounted' /\ p.act = acts' /\ p.act \in alive'
     /\ \A p \in polls : \A resp \in PollResponses :
          (p.act < acts /\ TickSettle(p, resp)) => queue' = queue]_vars

\* the second activation is live with its one timer, and the response, carrying
\* a queue, to a poll of the first activation has just been dropped
C11_Witness ==
  /\ mounted
  /\ acts = 2
  /\ timers = {2}
  /\ last = Step("tick", "torn down")
  /\ \E p \in polls : p.act = 2

\* the lines of a text, by position: a line starts at 1 and after each newline
\* and runs up to the next newline or the end of the text
LineStarts(t) == {1} \cup {i + 1 : i \in {j \in 1..Len(t) : t[j] = "\n"}}
LineEnd(t, s) ==
  LET nl == {i \in s..Len(t) : t[i] = "\n"}
  IN IF nl = {} THEN Len(t) ELSE (CHOOSE i \in nl : \A j \in nl : i <= j) - 1
LineAt(t, s) == SubSeq(t, s, LineEnd(t, s))
\* a line without the whitespace before its first and after its last other character
Trimmed(l) ==
  LET ink == {i \in 1..Len(l) : ~IsSpace(l[i])}
  IN IF ink = {} THEN <<>>
     ELSE SubSeq(l, CHOOSE i \in ink : \A j \in ink : i <= j,
                    CHOOSE i \in ink : \A j \in ink : j <= i)
\* the trimmed non-blank lines of a text, in their order, duplicates kept
TrimmedLines(t) ==
  LET keep == {s \in LineStarts(t) : Trimmed(LineAt(t, s)) # <<>>}
      nth(k) == CHOOSE s \in keep : Cardinality({x \in keep : x < s}) = k - 1
  IN [k \in 1..Cardinality(keep) |-> Trimmed(LineAt(t, nth(k)))]

RECURSIVE JoinLines(_)
JoinLines(ls) ==
  IF ls = <<>> THEN <<>>
  ELSE IF Len(ls) = 1 THEN Head(ls)
  ELSE Head(ls) \o <<"\n">> \o JoinLines(Tail(ls))

\* C12: for every text the parsed line list holds no empty string and no
\* string that starts or ends with whitespace, is the sequence of the trimmed
\* non-blank lines of the text in their order with duplicates kept, and
\* parses to itself once joined with newlines.
C12_ParsedLines ==
  LET out == parsedQueueLines(queueText)
  IN /\ \A i \in 1..Len(out) :
          /\ out[i] # <<>>
          /\ ~IsSpace(out[i][1])
          /\ ~IsSpace(out[i][Len(out[i])])
     /\ out = TrimmedLines(queueText)
     /\ parsedQueueLines(JoinLines(out)) = out

\* a text of two equal lines, with a blank line or a line's blanks dropped
C12_Witness ==
  LET out == parsedQueueLines(queueText)
  IN /\ mounted
     /\ Len(queueText) = 4
     /\ Len(out) = 2
     /\ out[1] = out[2]

\* a base without its trailing slashes, then one slash
RECURSIVE DropSlashes(_)
DropSlashes(b) ==
  IF b # <<>> /\ b[Len(b)] = "/" THEN DropSlashes(SubSeq(b, 1, Len(b) - 1)) ELSE b
BaseWithOneSlash(b) == DropSlashes(b) \o <<"/">>

\* C13: when URL resolution throws, the result of joinApiUrl for a path that
\* begins with "/" is the base made to end with exactly one "/" followed by
\* the path without its leading "/": it ends with the stripped path, and what
\* precedes the stripped path is the base ending with exactly one "/".
C13_FallbackJoinsWithOneSlash ==
  joined # NoCall =>
    LET stripped == Tail(joined.path)
        n == Len(joined.url) - Len(stripped)
        before == SubSeq(joined.url, 1, n)
    IN /\ n >= 1
       /\ SubSeq(joined.url, n + 1, Len(joined.url)) = stripped
       /\ before[n] = "/"
       /\ n > 1 => before[n - 1] # "/"
       /\ before = BaseWithOneSlash(apiBase)

\* C14: Cancel aborts nothing: the response to a request issued before Cancel
\* and handled as the next step after it, no dispatcher having been invoked in
\* between, is applied like any other while url stays empty: a thumbnail or a
\* stream it carries is displayed, and a failure sets the error string.
C14_LateResponseApplies ==
  [][last.op = "handleCancel" =>
       \A r \in reqs : \A resp \in Responses(r.kind) :
         Settle(r, resp) =>
           /\ url' = ""
           /\ (r.kind = "thumbnail" /\ Succeeds(r, resp))
                => thumbnailUrl' = resp.body.obj.thumbnail
           /\ (r.kind = "preview" /\ Succeeds(r, resp))
                => streamUrl' = resp.body.obj.stream_url
           /\ ~Succeeds(r, resp) => error' # ""]_vars

\* Cancel has run, no dispatcher has been invoked since, url is empty and the
\* thumbnail of a request issued before Cancel is displayed
C14_Witness ==
  /\ last = Step("thumbnail", "after cancel")
  /\ url = ""
  /\ thumbnailUrl # ""

\* the result field of a Thumbnail or Preview request is empty
FieldEmpty(r, thumbnail, stream) ==
  /\ r.kind = "thumbnail" => thumbnail = ""
  /\ r.kind = "preview" => stream = ""

\* C15 as stated: whenever the most recently invoked Thumbnail request is in
\* flight thumbnailUrl is empty, and whenever the most recently invoked
\* Preview request is in flight streamUrl is empty, also when an earlier
\* request of the same kind is in flight.
C15_NeverStaleWhileLoading ==
  \A r \in reqs : r.id \notin superseded => FieldEmpty(r, thumbnailUrl, streamUrl)

\* C15, amended: each of the two dispatchers empties its field when invoked,
\* and the field stays empty while the most recently invoked request of the
\* kind is in flight provided no earlier request of that kind was in flight
\* when it was invoked.  The response to such an earlier request, handled
\* while the later one is loading, is displayed.
C15_EmptyWhileLoadingAlone ==
  [][/\ handleThumbnail => thumbnailUrl' = ""
     /\ handlePreview => streamUrl' = ""
     /\ \A r \in reqs' :
          (r.id \notin superseded' /\ r.id \notin followers')
            => FieldEmpty(r, thumbnailUrl', streamUrl')]_vars

\* a Thumbnail request is loading, alone of its kind, over a view from which
\* its invocation removed the thumbnail displayed before
C15_Witness ==
  \E r \in reqs :
    /\ r.kind = "thumbnail"
    /\ r.id \notin superseded
    /\ r.id \notin followers
    /\ thumbBy.shown # 0
    /\ thumbnailUrl = ""

\* C16: the interval issues a poll whether or not earlier polls have been
\* answered, and the well-formed response to a poll of the live activation
\* replaces the snapshot also when the response of a later tick has been
\* applied already.
C16_LateTickResponseApplies ==
  [][/\ (timers # {} /\ fetched < MaxFetch) => ENABLED intervalTick
     /\ intervalTick => (polls \subseteq polls' /\ Cardinality(polls') = Cardinality(polls) + 1)
     /\ \A p \in polls : \A resp \in PollResponses :
          (/\ p.act \in alive
           /\ queueBy.newest > p.id
           /\ SuccessStatus(resp)
           /\ Has(resp, "queue")
           /\ TickSettle(p, resp))
            => queue' = resp.body.obj.queue]_vars

\* the snapshot displayed is the response of the first tick, applied after that
\* of the second
C16_Witness ==
  /\ mounted
  /\ queueBy.shown # 0
  /\ queueBy.shown < queueBy.newest
  /\ queue # <<>>

\* a well-formed response has just replaced the snapshot
Replaced ==
  \E p \in polls : \E resp \in PollResponses :
    /\ pollerSettle(p, resp)
    /\ SuccessStatus(resp)
    /\ Has(resp, "queue")
    /\ queue' = resp.body.obj.queue

\* C17: an activation issues one GET /api/queue at once; and if the view
\* stays active from some point on, then, whatever polls failed or are left
\* unanswered, the interval issues a poll again and again and the snapshot
\* is replaced by a well-formed response again and again.
C17_PollerKeepsPolling ==
  /\ [][pollerMount =>
          \E p \in polls' \ polls :
            p.act = acts' /\ p.method = "GET" /\ p.path = "/api/queue"]_vars
  /\ <>[]mounted => []<><<pollerTick>>_vars
  /\ <>[]mounted => []<><<Replaced>>_vars

\* a snapshot has been applied while the first poll of the same activation is
\* still unanswered
C17_Witness ==
  /\ mounted
  /\ queue # <<>>
  /\ \E p \in polls : p.act \in alive /\ p.id = 1

\* C18: every failed outcome of a dispatcher (rejected fetch with or without
\* a message, failure status with or without detail, success status without
\* the field) leaves the error string non-empty; and when a Thumbnail or
\* Preview request shared the wire with no other dispatcher, exactly one of
\* its result field and the error string is non-empty once it has completed.
C18_FailureNeverSilent ==
  [][\A r \in reqs : \A resp \in Responses(r.kind) :
       Settle(r, resp) =>
         /\ ~Succeeds(r, resp) => error' # ""
         /\ (r.kind \in {"thumbnail", "preview"} /\ r.id \notin overlap) =>
              LET result == IF r.kind = "thumbnail" THEN thumbnailUrl' ELSE streamUrl'
              IN (result # "") # (error' # "")]_vars

\* the only request made, a Preview, was rejected with no message: the
\* dispatcher's own message is displayed and the stream is empty
C18_Witness ==
  /\ errorBy.kind = "preview"
  /\ fetched = 2
  /\ errorBy.id = 2
  /\ error = "Failed to fetch preview"
  /\ streamUrl = ""

====
